---------------------------- MODULE Spec2Model ----------------------------
(***************************************************************************)
(* Model of the two diagnostic scripts of the repository:                  *)
(*   src/check_embeddings.py  (embedding / referential-integrity checker)  *)
(*   src/check_migration.py   (structural checker)                         *)
(* Each script is a sequential program; its position is kept in a program  *)
(* counter and every remote call is an action whose outcome (success or    *)
(* failure, and the data returned) is chosen nondeterministically.         *)
(***************************************************************************)
EXTENDS Integers, Sequences, FiniteSets, TLC

VARIABLES
    pc,          \* position of check_embeddings
    chunks,      \* local `chunks` of check_embeddings (list returned by fetch_chunks)
    doc_ids,     \* local `doc_ids` of check_embeddings (set returned by fetch_document_ids)
    idx,         \* number of chunks the for-loop has taken from `chunks` so far
    out,         \* the diagnostic lines printed by the for-loop, in print order
    calls,       \* how many times each fetch has been issued in this run
    error,       \* the exception that ended the run, "none" while there is none
    mpc,         \* position of check_migration.main
    args,        \* check_migration: the parsed --url and --key
    enum_i,      \* check_migration: number of enums check_enum_types has probed
    enum_results,\* check_migration: `results` / `enum_results`
    table_i,     \* check_migration: index of the table main's loop is at
    exists,      \* check_migration: local `exists` of the current loop iteration
    probes,      \* check_migration: every remote probe issued, in issue order
    report       \* check_migration: the report lines printed per table, in print order

evars == <<pc, chunks, doc_ids, idx, out, calls, error>>
mvars == <<mpc, args, enum_i, enum_results, table_i, exists, probes, report>>
vars == <<pc, chunks, doc_ids, idx, out, calls, error,
          mpc, args, enum_i, enum_results, table_i, exists, probes, report>>

-----------------------------------------------------------------------------
(***************************************************************************)
(* Bounds of the model and constants of the program.                       *)
(***************************************************************************)

\* Largest sample fetch_chunks returns in the model (the script asks for limit=20).
MaxChunks == 2

\* EXPECTED_DIM of check_embeddings.py, scaled down: 1536 there ("Change if your
\* embedding dimension is different"), here the dimension of the specification's
\* worked example, so that lists of the right and of a wrong length are enumerable.
EXPECTED_DIM == 3

\* The literal 1e6 of the value check.
MagnitudeBound == 1000000

-----------------------------------------------------------------------------
(***************************************************************************)
(* Python values as they come out of resp.json() and json.loads.           *)
(*   t  : the Python type                                                  *)
(*   n  : the numeric value of an int, a bool or a finite float            *)
(*   f  : "fin", "nan" or "inf" for a float, "fin" otherwise               *)
(*   s  : the text of a str                                                *)
(*   xs : the elements of a list, the keys of a dict                       *)
(***************************************************************************)
PyNone == [t |-> "NoneType", n |-> 0, f |-> "fin", s |-> "", xs |-> <<>>]
PyBool(b) == [t |-> "bool", n |-> IF b THEN 1 ELSE 0, f |-> "fin", s |-> "", xs |-> <<>>]
PyInt(k) == [t |-> "int", n |-> k, f |-> "fin", s |-> "", xs |-> <<>>]
PyFloat(k) == [t |-> "float", n |-> k, f |-> "fin", s |-> "", xs |-> <<>>]
PyNaN == [t |-> "float", n |-> 0, f |-> "nan", s |-> "", xs |-> <<>>]
PyInf == [t |-> "float", n |-> 0, f |-> "inf", s |-> "", xs |-> <<>>]
PyStr(x) == [t |-> "str", n |-> 0, f |-> "fin", s |-> x, xs |-> <<>>]
PyList(ys) == [t |-> "list", n |-> 0, f |-> "fin", s |-> "", xs |-> ys]
PyDict(keys) == [t |-> "dict", n |-> 0, f |-> "fin", s |-> "", xs |-> keys]

\* The characters of the strings that occur as parsed values, as iterating a str yields them.
Chars(x) ==
    CASE x = "abc" -> <<PyStr("a"), PyStr("b"), PyStr("c")>>
      [] x = "a" -> <<PyStr("a")>>
      [] x = "" -> <<>>

\* len(v) is defined for a list, a dict and a str; on anything else it raises TypeError.
HasLen(v) == v.t \in {"list", "dict", "str"}

\* What a for-loop or a generator over v yields: list elements, dict keys, str characters.
Iter(v) == IF v.t = "str" THEN Chars(v.s) ELSE v.xs

PyLen(v) == Len(Iter(v))

Abs(k) == IF k < 0 THEN -k ELSE k

\* not isinstance(x, (int, float)) or x != x or abs(x) > 1e6
\* (bool is a subclass of int; NaN is the only value unequal to itself;
\*  abs(inf) exceeds every finite bound).
BadValue(x) ==
    \/ x.t \notin {"int", "float", "bool"}
    \/ (x.t = "float" /\ x.f = "nan")
    \/ (x.t = "float" /\ x.f = "inf")
    \/ (x.f = "fin" /\ Abs(x.n) > MagnitudeBound)

-----------------------------------------------------------------------------
(***************************************************************************)
(* json.loads on the embedding texts of the model.  A text that is not     *)
(* JSON raises json.JSONDecodeError (ok = FALSE, msg = the exception's     *)
(* text); a text that is JSON yields the Python value it denotes, which    *)
(* need not be a list.                                                     *)
(***************************************************************************)
Parsed(v) == [ok |-> TRUE, val |-> v, msg |-> ""]
ParseError(m) == [ok |-> FALSE, val |-> PyNone, msg |-> m]

json_loads(text) ==
    CASE text = "[1.0, 2.0, 3.0]" -> Parsed(PyList(<<PyFloat(1), PyFloat(2), PyFloat(3)>>))
      [] text = "[1.0, NaN]" -> Parsed(PyList(<<PyFloat(1), PyNaN>>))
      [] text = "5" -> Parsed(PyInt(5))
      [] text = "null" -> Parsed(PyNone)
      [] text = "\"abc\"" -> Parsed(PyStr("abc"))
      [] text = "{}" -> Parsed(PyDict(<<>>))
      [] text = "[1.0, 2.0" -> ParseError("Expecting ',' delimiter")
      [] OTHER -> ParseError("Expecting value")

-----------------------------------------------------------------------------
(***************************************************************************)
(* The diagnostic lines of check_embeddings, one constructor per print.    *)
(***************************************************************************)
MissingEmbedding(eid) == [kind |-> "MissingEmbedding", chunk |-> eid]
UnparsableEmbedding(eid, reason) ==
    [kind |-> "UnparsableEmbedding", chunk |-> eid, reason |-> reason]
DimensionMismatch(eid, n) ==
    [kind |-> "DimensionMismatch", chunk |-> eid, actual_length |-> n]
InvalidValues(eid) == [kind |-> "InvalidValues", chunk |-> eid]
OrphanedChunk(eid, ref) ==
    [kind |-> "OrphanedChunk", chunk |-> eid, document_id |-> ref]

\* Line 55: not isinstance(emb_list, list) or len(emb_list) != EXPECTED_DIM
WrongDimension(emb_list) == emb_list.t # "list" \/ PyLen(emb_list) # EXPECTED_DIM

\* Line 59: any(<bad value> for x in emb_list)
AnyBadValue(emb_list) == \E k \in 1..PyLen(emb_list) : BadValue(Iter(emb_list)[k])

\* Checks with the orphan check moved in front of the dimension check.
ChecksOrphanFirst(eid, emb_list, doc_id, ids) ==
    (IF doc_id \notin ids THEN <<OrphanedChunk(eid, doc_id)>> ELSE <<>>)
    \o (IF WrongDimension(emb_list)
        THEN <<DimensionMismatch(eid, PyLen(emb_list))>> ELSE <<>>)
    \o (IF AnyBadValue(emb_list) THEN <<InvalidValues(eid)>> ELSE <<>>)

\* Lines 54-64, for a parsed embedding on which len() is defined.
Checks(eid, emb_list, doc_id, ids) ==
    (IF WrongDimension(emb_list)
        THEN <<DimensionMismatch(eid, PyLen(emb_list))>> ELSE <<>>)
    \o (IF AnyBadValue(emb_list) THEN <<InvalidValues(eid)>> ELSE <<>>)
    \o (IF doc_id \notin ids THEN <<OrphanedChunk(eid, doc_id)>> ELSE <<>>)

\* One iteration of the for-loop of check_embeddings (lines 34-64): the lines
\* it prints, and whether it ends by an uncaught exception.  Formatting line 56
\* evaluates len(emb_list) before anything of this chunk is printed, and len()
\* of an int, a float, a bool or None raises TypeError outside the try block.
LoopBody(chunk, ids) ==
    LET eid == chunk.id
        emb == chunk.embedding
        doc_id == chunk.document_id
    IN  IF emb.t = "NoneType"
          THEN [lines |-> <<MissingEmbedding(eid)>>, raised |-> FALSE]
          ELSE LET p == IF emb.t = "str" THEN json_loads(emb.s) ELSE Parsed(emb)
               IN  IF ~p.ok
                     THEN [lines |-> <<UnparsableEmbedding(eid, p.msg)>>, raised |-> FALSE]
                     ELSE IF WrongDimension(p.val) /\ ~HasLen(p.val)
                            THEN [lines |-> <<>>, raised |-> TRUE]
                            ELSE [lines |-> Checks(eid, p.val, doc_id, ids),
                                  raised |-> FALSE]

-----------------------------------------------------------------------------
(***************************************************************************)
(* What the store can answer.  An embedding arrives as JSON null, as text  *)
(* (a stringified value) or as an already structured value.                *)
(***************************************************************************)
Ok == PyFloat(1)

\* A list of n elements, all valid but the last, which is e.
Filled(n, e) == [k \in 1..n |-> IF k = n THEN e ELSE Ok]

\* Elements put into a list of otherwise valid values: a valid value, the two
\* sides of the magnitude bound, NaN, infinity, a JSON boolean, a JSON string
\* and a JSON null.
Elements ==
    {Ok, PyFloat(MagnitudeBound), PyInt(-(MagnitudeBound + 1)), PyNaN, PyInf,
     PyBool(TRUE), PyStr("x"), PyNone}

EmbeddingLists ==
    {Filled(EXPECTED_DIM, e) : e \in Elements}
    \cup {Filled(n, Ok) : n \in {0, EXPECTED_DIM - 1, EXPECTED_DIM + 1}}
    \cup {Filled(EXPECTED_DIM - 1, PyNaN), <<PyNaN, PyStr("x")>>}

EmbeddingTexts ==
    {"[1.0, 2.0, 3.0]", "[1.0, NaN]", "5", "null", "\"abc\"", "{}", "not json"}

Embeddings ==
    {PyNone}
    \cup {PyStr(text) : text \in EmbeddingTexts}
    \cup {PyList(ys) : ys \in EmbeddingLists}
    \cup {PyFloat(5), PyDict(<<PyStr("a")>>)}

\* Identifiers the documents collection can hold, and the references chunks carry.
DocumentIds == {"doc-1", "doc-2"}
DocumentRefs == {"doc-1", "doc-999"}

\* The rows of document_chunks projected on id, embedding, document_id, for a
\* response of n rows with embeddings e and references r.  The rows of one
\* response carry distinct ids (id is the primary key).
ChunkRows(n, e, r) ==
    [k \in 1..n |-> [id |-> k, embedding |-> e[k], document_id |-> r[k]]]

-----------------------------------------------------------------------------
(***************************************************************************)
(* check_embeddings (src/check_embeddings.py, lines 29-66)                 *)
(***************************************************************************)
InitEmbeddings ==
    /\ pc = "fetch_chunks"
    /\ chunks = <<>>
    /\ doc_ids = {}
    /\ idx = 0
    /\ out = <<>>
    /\ calls = [fetch_chunks |-> 0, fetch_document_ids |-> 0]
    /\ error = "none"

\* Line 31, fetch_chunks returns: the response is a success and its JSON is the sample.
FetchChunksOk ==
    /\ pc = "fetch_chunks"
    /\ \E n \in 0..MaxChunks :
          \E e \in [1..n -> Embeddings], r \in [1..n -> DocumentRefs] :
              chunks' = ChunkRows(n, e, r)
    /\ calls' = [calls EXCEPT !.fetch_chunks = @ + 1]
    /\ pc' = "fetch_document_ids"
    /\ UNCHANGED <<doc_ids, idx, out, error>>

\* Line 31, fetch_chunks raises: requests.get fails (transport) or
\* raise_for_status raises (non-success response); nothing catches it.
FetchChunksFail ==
    /\ pc = "fetch_chunks"
    /\ \E e \in {"ConnectionError", "HTTPError"} : error' = e
    /\ calls' = [calls EXCEPT !.fetch_chunks = @ + 1]
    /\ pc' = "raised"
    /\ UNCHANGED <<chunks, doc_ids, idx, out>>

\* Line 32, fetch_document_ids returns the set of the ids of the documents.
FetchDocumentIdsOk ==
    /\ pc = "fetch_document_ids"
    /\ \E ids \in SUBSET DocumentIds : doc_ids' = ids
    /\ calls' = [calls EXCEPT !.fetch_document_ids = @ + 1]
    /\ pc' = "loop"
    /\ UNCHANGED <<chunks, idx, out, error>>

\* fetch_document_ids with the failure swallowed: the run goes on with no documents.
FetchDocumentIdsDegraded ==
    /\ pc = "fetch_document_ids"
    /\ \E e \in {"ConnectionError", "HTTPError"} : error' = e
    /\ calls' = [calls EXCEPT !.fetch_document_ids = @ + 1]
    /\ doc_ids' = {}
    /\ pc' = "loop"
    /\ UNCHANGED <<chunks, idx, out>>

\* Line 32, fetch_document_ids raises.
FetchDocumentIdsFail ==
    /\ pc = "fetch_document_ids"
    /\ \E e \in {"ConnectionError", "HTTPError"} : error' = e
    /\ calls' = [calls EXCEPT !.fetch_document_ids = @ + 1]
    /\ pc' = "raised"
    /\ UNCHANGED <<chunks, doc_ids, idx, out>>

\* Lines 33-64: the for-loop takes the next chunk and runs its body on it.
ExamineChunk ==
    /\ pc = "loop"
    /\ idx < Len(chunks)
    /\ LET r == LoopBody(chunks[idx + 1], doc_ids)
       IN  /\ out' = out \o r.lines
           /\ pc' = IF r.raised THEN "raised" ELSE "loop"
           /\ error' = IF r.raised THEN "TypeError" ELSE error
    /\ idx' = idx + 1
    /\ UNCHANGED <<chunks, doc_ids, calls>>

\* Line 66: the loop is exhausted, print("Check complete.").
CheckComplete ==
    /\ pc = "loop"
    /\ idx = Len(chunks)
    /\ pc' = "done"
    /\ UNCHANGED <<chunks, doc_ids, idx, out, calls, error>>

-----------------------------------------------------------------------------
(***************************************************************************)
(* check_migration (src/check_migration.py).  Every remote call is a probe;*)
(* a probe either returns or raises, and each of the script's try blocks   *)
(* decides what a raise becomes.                                           *)
(***************************************************************************)

\* `enums` and `column_name` of check_enum_types, in the dict's iteration order.
Enums ==
    << [enum |-> "legal_document_type", table |-> "legal_documents", column |-> "document_type"],
       [enum |-> "change_type", table |-> "legal_changes", column |-> "change_type"],
       [enum |-> "impact_level", table |-> "legal_changes", column |-> "impact_level"],
       [enum |-> "contract_type", table |-> "contracts", column |-> "contract_type"],
       [enum |-> "priority_level", table |-> "contract_impacts", column |-> "priority_level"] >>

\* `tables` of main.
Tables == <<"legal_documents", "legal_changes", "contracts", "contract_impacts">>

\* The hard-coded column lists check_table_structure falls back to on an empty table.
FallbackColumns(table_name) ==
    CASE table_name = "legal_documents" ->
            <<"id", "title", "content", "document_type", "source_url",
              "publication_date", "created_at", "updated_at">>
      [] table_name = "legal_changes" ->
            <<"id", "document_id", "change_type", "description", "impact_level",
              "detected_at", "created_at", "updated_at">>
      [] table_name = "contracts" ->
            <<"id", "contract_name", "content", "contract_type", "risk_level",
              "last_reviewed", "created_at", "updated_at">>
      [] table_name = "contract_impacts" ->
            <<"id", "contract_id", "change_id", "impact_description",
              "action_required", "priority_level", "created_at", "updated_at">>
      [] OTHER -> <<>>

\* What the store's client raises when a probe fails.
ProbeErrors == {"APIError"}

\* The values --url and --key can be given: empty or not.
ArgValues == {"", "given"}

Probe(op, table_name, columns) == [op |-> op, table |-> table_name, select |-> columns]

InitMigration ==
    /\ mpc = "parse_args"
    /\ args = [url |-> "", key |-> ""]
    /\ enum_i = 0
    /\ enum_results = <<>>
    /\ table_i = 1
    /\ exists = FALSE
    /\ probes = <<>>
    /\ report = <<>>

\* Lines 82-85: both flags are required; argparse exits the process when one is absent.
ParseArgs ==
    /\ mpc = "parse_args"
    /\ \/ /\ \E u \in ArgValues, k \in ArgValues : args' = [url |-> u, key |-> k]
          /\ mpc' = "initialize"
       \/ /\ mpc' = "exited"
          /\ UNCHANGED args
    /\ UNCHANGED <<enum_i, enum_results, table_i, exists, probes, report>>

\* Lines 7-11 and 88-92: initialize_supabase raises ValueError on an empty url or
\* key, create_client may raise as well; main catches either, prints and returns.
Initialize ==
    /\ mpc = "initialize"
    /\ \/ /\ args.url # "" /\ args.key # ""
          /\ mpc' = "enums"
       \/ mpc' = "returned"
    /\ UNCHANGED <<args, enum_i, enum_results, table_i, exists, probes, report>>

\* Lines 33-47: one iteration of the loop of check_enum_types.  The probe selects
\* the enum's column; a raise is caught and becomes the enum's result.
CheckEnum ==
    /\ mpc = "enums"
    /\ enum_i < Len(Enums)
    /\ LET e == Enums[enum_i + 1]
       IN  /\ probes' = Append(probes, Probe("enum", e.table, e.column))
           /\ \E status \in {"Verified"} \cup {"Error: " \o x : x \in ProbeErrors} :
                 enum_results' = Append(enum_results, [enum |-> e.enum, status |-> status])
    /\ enum_i' = enum_i + 1
    /\ UNCHANGED <<mpc, args, table_i, exists, report>>

\* The loop of main moves to the next table, or ends.
NextTable(i) == IF i < Len(Tables) THEN "exists" ELSE "done"

\* Lines 49 and 106-112: check_enum_types returns, main prints the results and
\* enters the loop over the tables.
EnumsChecked ==
    /\ mpc = "enums"
    /\ enum_i = Len(Enums)
    /\ mpc' = "exists"
    /\ UNCHANGED <<args, enum_i, enum_results, table_i, exists, probes, report>>

\* The loop body of main without its `if exists:`.
CheckTableExistsUnguarded ==
    /\ mpc = "exists"
    /\ LET table == Tables[table_i]
       IN  /\ probes' = Append(probes, Probe("exists", table, "id"))
           /\ \E ok \in BOOLEAN :
                /\ exists' = ok
                /\ report' = Append(report, [line |-> "Exists", table |-> table, value |-> ok])
    /\ mpc' = "structure"
    /\ UNCHANGED <<args, enum_i, enum_results, table_i>>

\* Lines 13-20 and 114-118: check_table_exists returns True, or catches the raise
\* and returns False; main prints the verdict and skips the table when it is False.
CheckTableExists ==
    /\ mpc = "exists"
    /\ LET table == Tables[table_i]
       IN  /\ probes' = Append(probes, Probe("exists", table, "id"))
           /\ \E ok \in BOOLEAN :
                /\ exists' = ok
                /\ report' = Append(report, [line |-> "Exists", table |-> table, value |-> ok])
                /\ mpc' = IF ok THEN "structure" ELSE NextTable(table_i)
                /\ table_i' = IF ok THEN table_i ELSE table_i + 1
    /\ UNCHANGED <<args, enum_i, enum_results>>

\* Lines 51-78 and 119-120: check_table_structure returns the columns of the first
\* row, the fall-back columns when the table is empty, or the error it caught.
CheckTableStructure ==
    /\ mpc = "structure"
    /\ LET table == Tables[table_i]
       IN  /\ probes' = Append(probes, Probe("structure", table, "*"))
           /\ \E structure \in
                    {[status |-> "success", columns |-> <<"id">>],
                     [status |-> "success", columns |-> FallbackColumns(table)]}
                    \cup {[status |-> "error", error |-> x] : x \in ProbeErrors} :
                 report' = Append(report,
                                  [line |-> "Structure", table |-> table, value |-> structure])
    /\ mpc' = "count"
    /\ UNCHANGED <<args, enum_i, enum_results, table_i, exists>>

\* Lines 122-127: the row count, or the error caught in its place.
CountRows ==
    /\ mpc = "count"
    /\ LET table == Tables[table_i]
       IN  /\ probes' = Append(probes, Probe("count", table, "id"))
           /\ \E count \in {"0", "1"} \cup {"Error - " \o x : x \in ProbeErrors} :
                 report' = Append(report,
                                  [line |-> "Row count", table |-> table, value |-> count])
    /\ mpc' = NextTable(table_i)
    /\ table_i' = table_i + 1
    /\ UNCHANGED <<args, enum_i, enum_results, exists>>

-----------------------------------------------------------------------------
Init == InitEmbeddings /\ InitMigration

Next ==
    \/ (FetchChunksOk /\ UNCHANGED mvars)
    \/ (FetchChunksFail /\ UNCHANGED mvars)
    \/ (FetchDocumentIdsOk /\ UNCHANGED mvars)
    \/ (FetchDocumentIdsFail /\ UNCHANGED mvars)
    \/ (ExamineChunk /\ UNCHANGED mvars)
    \/ (CheckComplete /\ UNCHANGED mvars)

\* A run of check_embeddings.
Spec == Init /\ [][Next]_vars

MigrationNext ==
    \/ (ParseArgs /\ UNCHANGED evars)
    \/ (Initialize /\ UNCHANGED evars)
    \/ (CheckEnum /\ UNCHANGED evars)
    \/ (EnumsChecked /\ UNCHANGED evars)
    \/ (CheckTableExists /\ UNCHANGED evars)
    \/ (CheckTableStructure /\ UNCHANGED evars)
    \/ (CountRows /\ UNCHANGED evars)

\* A run of check_migration.
MigrationSpec == Init /\ [][MigrationNext]_vars

-----------------------------------------------------------------------------
(***************************************************************************)
(* Vocabulary of the claims about check_embeddings.                        *)
(***************************************************************************)
FetchErrors == {"ConnectionError", "HTTPError"}

\* A fetch has failed in this run.
FetchFailed == error \in FetchErrors

\* The run is over: it printed "Check complete." or an exception ended it.
RunOver == pc \in {"done", "raised"}

\* The run is over and both fetches had succeeded.
PassOver == RunOver /\ ~FetchFailed

\* The lines of the log that name the chunk with identifier k.
FindingsOf(k) == SelectSeq(out, LAMBDA l : l.chunk = k)

HasFinding(k, kind) == \E p \in DOMAIN out : out[p].chunk = k /\ out[p].kind = kind

CountFindings(k, kind) ==
    Cardinality({p \in DOMAIN out : out[p].chunk = k /\ out[p].kind = kind})

\* The embedding of a chunk is text that json.loads rejects.
IsMalformedText(emb) == emb.t = "str" /\ ~json_loads(emb.s).ok

\* The embedding of a chunk is present and parses (or is already structured).
IsParsed(emb) == emb.t # "NoneType" /\ ~IsMalformedText(emb)

\* The value the checks are run on, for an embedding that IsParsed.
ParsedValue(emb) == IF emb.t = "str" THEN json_loads(emb.s).val ELSE emb

\* A sequence in the sense of the data model: a JSON array.
IsSequence(v) == v.t = "list"

\* The elements of a parsed embedding: those of a list, the keys of an object,
\* the characters of a string; a scalar has none.
ElementsOf(v) == IF v.t \in {"list", "dict", "str"} THEN Iter(v) ELSE <<>>

\* An element as the data model wants it: a JSON number that is not NaN and
\* whose absolute value does not exceed the magnitude bound.
IsFiniteNumberInBound(x) ==
    /\ x.t \in {"int", "float"}
    /\ x.f = "fin"
    /\ x.n <= MagnitudeBound
    /\ x.n >= -MagnitudeBound

HasBadElement(v) ==
    \E p \in DOMAIN ElementsOf(v) : ~IsFiniteNumberInBound(ElementsOf(v)[p])

\* The four invariants of the data model, for one chunk.
SatisfiesAllFour(c) ==
    /\ c.embedding.t # "NoneType"
    /\ IsParsed(c.embedding)
    /\ IsSequence(ParsedValue(c.embedding))
    /\ Len(ParsedValue(c.embedding).xs) = EXPECTED_DIM
    /\ ~HasBadElement(ParsedValue(c.embedding))
    /\ c.document_id \in doc_ids

\* Position of a kind of finding in the decision sequence of one chunk.
Rank(kind) ==
    CASE kind = "MissingEmbedding" -> 1
      [] kind = "UnparsableEmbedding" -> 2
      [] kind = "DimensionMismatch" -> 3
      [] kind = "InvalidValues" -> 4
      [] kind = "OrphanedChunk" -> 5

\* The place of a chunk in the fetched sample, by its identifier.
PositionOf(eid) == CHOOSE k \in DOMAIN chunks : chunks[k].id = eid

\* The log is sorted by chunk, and within a chunk by the decision sequence.
LogOrdered ==
    \A p, q \in DOMAIN out :
        p < q =>
            \/ PositionOf(out[p].chunk) < PositionOf(out[q].chunk)
            \/ /\ out[p].chunk = out[q].chunk
               /\ Rank(out[p].kind) < Rank(out[q].kind)
               /\ Rank(out[p].kind) >= Rank("DimensionMismatch")

\* A step leaves the lines already in the log where and as they are.
LogOnlyGrows == Len(out') >= Len(out) /\ SubSeq(out', 1, Len(out)) = out

\* The existence verdicts check_migration has printed, in print order.
Verdicts == SelectSeq(report, LAMBDA l : l.line = "Exists")

-----------------------------------------------------------------------------
(***************************************************************************)
(* C1.  Once both fetches have succeeded, check_embeddings never aborts    *)
(* because of the content of a fetched chunk: every chunk of the sample is *)
(* examined and the pass reaches "Check complete.".  Stated on the end of  *)
(* a run: a run that is over and whose fetches succeeded is at "done" with *)
(* every chunk taken by the loop.                                          *)
(***************************************************************************)
C1_PassNeverAborts ==
    PassOver => (pc = "done" /\ idx = Len(chunks) /\ error = "none")

(***************************************************************************)
(* C2.  For every fetched chunk whose document reference is not in the set *)
(* returned by fetch_document_ids, the pass emits an OrphanedChunk finding *)
(* naming that chunk and its document reference.                           *)
(***************************************************************************)
C2_EveryOrphanReported ==
    PassOver =>
        \A k \in DOMAIN chunks :
            chunks[k].document_id \notin doc_ids =>
                \E p \in DOMAIN out :
                    out[p] = OrphanedChunk(chunks[k].id, chunks[k].document_id)

(***************************************************************************)
(* C3.  For every fetched chunk whose embedding is null the pass emits     *)
(* exactly one finding for that chunk, a MissingEmbedding, and nothing of  *)
(* the parse, dimension, value or orphan checks.                           *)
(***************************************************************************)
C3_NullEmbeddingOneFinding ==
    PassOver =>
        \A k \in DOMAIN chunks :
            chunks[k].embedding.t = "NoneType" =>
                FindingsOf(chunks[k].id) = <<MissingEmbedding(chunks[k].id)>>

(***************************************************************************)
(* C4.  For every fetched chunk whose embedding is text that is not valid  *)
(* structured data the pass emits exactly one finding for that chunk, an   *)
(* UnparsableEmbedding, and nothing of the dimension, value or orphan      *)
(* checks.                                                                 *)
(***************************************************************************)
C4_MalformedTextOneFinding ==
    PassOver =>
        \A k \in DOMAIN chunks :
            IsMalformedText(chunks[k].embedding) =>
                /\ Len(FindingsOf(chunks[k].id)) = 1
                /\ FindingsOf(chunks[k].id)[1].kind = "UnparsableEmbedding"

(***************************************************************************)
(* C5.  For every fetched chunk whose embedding is present and parses, if  *)
(* the parsed value is not a sequence or its length differs from the       *)
(* expected dimension, the pass emits a DimensionMismatch finding carrying *)
(* the actual length, and the value check and the orphan check still run   *)
(* on that chunk.                                                          *)
(***************************************************************************)
C5_DimensionMismatchReported ==
    PassOver =>
        \A k \in DOMAIN chunks :
            LET c == chunks[k]
                v == ParsedValue(c.embedding)
            IN  (IsParsed(c.embedding)
                 /\ (~IsSequence(v) \/ Len(v.xs) # EXPECTED_DIM)) =>
                    /\ \E p \in DOMAIN out :
                          /\ out[p].chunk = c.id
                          /\ out[p].kind = "DimensionMismatch"
                          /\ HasLen(v) => out[p].actual_length = PyLen(v)
                    /\ HasBadElement(v) => HasFinding(c.id, "InvalidValues")
                    /\ c.document_id \notin doc_ids => HasFinding(c.id, "OrphanedChunk")

(***************************************************************************)
(* C6.  For every fetched chunk whose parsed embedding contains at least   *)
(* one element that is non-numeric, is NaN, or exceeds the magnitude bound *)
(* in absolute value, the pass emits an InvalidValues finding for that     *)
(* chunk, exactly one however many elements are bad.                       *)
(***************************************************************************)
C6_InvalidValuesOnce ==
    PassOver =>
        \A k \in DOMAIN chunks :
            (IsParsed(chunks[k].embedding)
             /\ HasBadElement(ParsedValue(chunks[k].embedding))) =>
                CountFindings(chunks[k].id, "InvalidValues") = 1

(***************************************************************************)
(* C9.  A fetched chunk yields zero findings exactly when it violates none *)
(* of the four verified invariants (embedding present, a sequence of the   *)
(* expected length, every element a number that is not NaN and within the  *)
(* magnitude bound, document reference in the fetched set).                *)
(***************************************************************************)
C9_NoFindingIffValid ==
    PassOver =>
        \A k \in DOMAIN chunks :
            (FindingsOf(chunks[k].id) = <<>>) <=> SatisfiesAllFour(chunks[k])


(***************************************************************************)
(* C7.  A failure of either fetch ends the run with the originating error: *)
(* no finding is emitted in that run, nothing is retried (no step follows  *)
(* the failure), each fetch is issued at most once per run, and the        *)
(* validation of chunks starts only after both fetches have succeeded.     *)
(***************************************************************************)
C7_FetchFailureIsFatal ==
    /\ calls.fetch_chunks <= 1
    /\ calls.fetch_document_ids <= 1
    /\ FetchFailed => (pc = "raised" /\ out = <<>> /\ idx = 0 /\ ~ENABLED Next)
    /\ calls.fetch_document_ids <= calls.fetch_chunks
    /\ pc = "raised" => error # "none"
    /\ (idx > 0 \/ out # <<>> \/ pc \in {"loop", "done"}) =>
          (calls.fetch_chunks = 1 /\ calls.fetch_document_ids = 1 /\ ~FetchFailed)

\* The second fetch fails after a sample was fetched in which a chunk has no embedding.
C7_Witness ==
    /\ FetchFailed
    /\ calls = [fetch_chunks |-> 1, fetch_document_ids |-> 1]
    /\ \E k \in DOMAIN chunks : chunks[k].embedding.t = "NoneType"

(***************************************************************************)
(* C8.  The findings of one pass form an ordered, append-only log: they    *)
(* appear in the fetch order of their chunks, within one chunk in the      *)
(* order DimensionMismatch, InvalidValues, OrphanedChunk, and a finding    *)
(* once emitted is never removed or changed by a later step.               *)
(***************************************************************************)
C8_OrderedAppendOnlyLog == [] LogOrdered /\ [][LogOnlyGrows]_vars

\* The first chunk got all three findings and a finding of the second chunk follows.
C8_Witness ==
    /\ Len(out) >= 4
    /\ out[1].kind = "DimensionMismatch" /\ out[1].chunk = chunks[1].id
    /\ out[2].kind = "InvalidValues" /\ out[2].chunk = chunks[1].id
    /\ out[3].kind = "OrphanedChunk" /\ out[3].chunk = chunks[1].id
    /\ out[4].chunk = chunks[2].id

-----------------------------------------------------------------------------
(***************************************************************************)
(* C10.  In check_migration.main, once the client is initialised a failing *)
(* probe never aborts the run: check_enum_types gives each of the five     *)
(* enums a result ("Verified" or an "Error: ..." text), then the four      *)
(* tables are visited in the fixed order, each gets exactly one existence  *)
(* verdict, and the structure and row-count probes are issued for a table  *)
(* only if its existence probe succeeded; if the initialisation fails no   *)
(* enum or table probe is issued at all.                                   *)
(***************************************************************************)
C10_ProbeFailuresNeverAbort ==
    /\ mpc \in {"parse_args", "initialize", "enums", "exists", "structure", "count",
                "done", "returned", "exited"}
    /\ mpc \notin {"done", "returned", "exited"} => ENABLED MigrationNext
    /\ mpc \in {"parse_args", "initialize", "returned", "exited"} =>
          (probes = <<>> /\ enum_results = <<>> /\ report = <<>>)
    /\ Len(enum_results) <= Len(Enums)
    /\ \A i \in DOMAIN enum_results :
          /\ enum_results[i].enum = Enums[i].enum
          /\ enum_results[i].status \in
                {"Verified"} \cup {"Error: " \o x : x \in ProbeErrors}
          /\ probes[i].op = "enum"
    /\ mpc \in {"exists", "structure", "count", "done"} =>
          Len(enum_results) = Len(Enums)
    /\ \A p \in DOMAIN probes :
          probes[p].op # "enum" => (p > Len(Enums) /\ Len(enum_results) = Len(Enums))
    /\ Len(Verdicts) <= Len(Tables)
    /\ \A i \in DOMAIN Verdicts : Verdicts[i].table = Tables[i]
    /\ Cardinality({p \in DOMAIN probes : probes[p].op = "exists"}) = Len(Verdicts)
    /\ mpc = "done" => Len(Verdicts) = Len(Tables)
    /\ \A p \in DOMAIN probes :
          probes[p].op \in {"structure", "count"} =>
              \E r \in DOMAIN report :
                  report[r] = [line |-> "Exists", table |-> probes[p].table, value |-> TRUE]

\* A finished run in which an enum probe, an existence probe, a structure probe
\* and a row-count probe have each failed.
C10_Witness ==
    /\ mpc = "done"
    /\ \E i \in DOMAIN enum_results : enum_results[i].status # "Verified"
    /\ \E r \in DOMAIN report : report[r].line = "Exists" /\ report[r].value = FALSE
    /\ \E r \in DOMAIN report :
          report[r].line = "Structure" /\ report[r].value.status = "error"
    /\ \E r \in DOMAIN report :
          report[r].line = "Row count" /\ report[r].value = "Error - APIError"

=============================================================================
